---------------------------- MODULE Spec2Model ----------------------------
(***************************************************************************)
(* A model of the MiniRegex engine of src/python/pygrep.py.                *)
(*                                                                         *)
(* Strings are sequences of one-character strings; positions are 1-based   *)
(* (Python's index i is position i+1 here).  The generators of the source  *)
(* (_match_inner, match_group_once, plus_recurse) are frames on `stack`,   *)
(* one per live generator object, in creation order; `cur` is the frame    *)
(* that is executing (0: the body of matches), `sig` says how control      *)
(* arrived there (a first or repeated next(): "run"; a value yielded by a  *)
(* sub-generator: "yield"; the sub-generator's exhaustion: "stop").        *)
(***************************************************************************)
EXTENDS Integers, Sequences, FiniteSets, TLC

\* ------------------------------------------------------------------------
\*  Bounds of the model
\* ------------------------------------------------------------------------
\* longest text over TextAlphabet handed to matches
MaxTextLen == 3
\* longest pattern enumerated exhaustively over PatAlphabet
MaxPatLen == 3
\* number of live generator frames at which the interpreter gives up
\* (Python's recursion limit, scaled down)
MaxDepth == 40

\* ------------------------------------------------------------------------
\*  Strings
\* ------------------------------------------------------------------------
\* the unset capture slot (Python's None)
None == <<"None">>

\* Python's s[n:]
Drop(s, n) == SubSeq(s, n + 1, Len(s))

\* Python's s[:n]
Take(s, n) == SubSeq(s, 1, n)

\* Python's text.startswith(cap)
startswith(s, p) == Len(p) <= Len(s) /\ Take(s, Len(p)) = p

\* code point of the characters the model uses (Python compares characters
\* by code point in _match_class)
Ord(c) ==
    CASE c = "$" -> 36 [] c = "(" -> 40 [] c = ")" -> 41 [] c = "*" -> 42
      [] c = "+" -> 43 [] c = "-" -> 45 [] c = "." -> 46
      [] c = "0" -> 48 [] c = "1" -> 49 [] c = "2" -> 50 [] c = "3" -> 51
      [] c = "?" -> 63 [] c = "[" -> 91 [] c = "\\" -> 92 [] c = "]" -> 93
      [] c = "^" -> 94 [] c = "_" -> 95 [] c = "a" -> 97 [] c = "b" -> 98
      [] c = "c" -> 99 [] c = "d" -> 100 [] c = "w" -> 119 [] c = "x" -> 120
      [] c = "y" -> 121 [] c = "|" -> 124
      [] OTHER -> 0

is_digit(c) == c \in {"0", "1", "2", "3"}

is_alpha(c) == c \in {"a", "b", "c", "d", "w", "x", "y"}

is_underscore(c) == c = "_"

\* int(esc) for a digit character
DigitValue(c) == Ord(c) - Ord("0")

\* ------------------------------------------------------------------------
\*  Counting capture groups
\* ------------------------------------------------------------------------
RECURSIVE count_groups_from(_, _, _)
count_groups_from(pat, i, count) ==
    IF i > Len(pat) THEN count
    ELSE IF pat[i] = "\\" THEN count_groups_from(pat, i + 2, count)
    ELSE IF pat[i] = "(" THEN count_groups_from(pat, i + 1, count + 1)
    ELSE count_groups_from(pat, i + 1, count)

count_groups(pat) == count_groups_from(pat, 1, 0)

\* ------------------------------------------------------------------------
\*  Character class matcher
\* ------------------------------------------------------------------------
RECURSIVE match_class_from(_, _, _)
match_class_from(c, class_expr, i) ==
    IF i > Len(class_expr) THEN FALSE
    ELSE IF i + 2 <= Len(class_expr) /\ class_expr[i + 1] = "-"
    THEN IF Ord(class_expr[i]) <= Ord(c) /\ Ord(c) <= Ord(class_expr[i + 2])
         THEN TRUE
         ELSE match_class_from(c, class_expr, i + 3)
    ELSE IF class_expr[i] = c THEN TRUE
    ELSE match_class_from(c, class_expr, i + 1)

match_class(c, class_expr, negated) ==
    LET matched == match_class_from(c, class_expr, 1)
    IN  IF negated THEN ~matched ELSE matched

\* ------------------------------------------------------------------------
\*  Pattern parsing
\* ------------------------------------------------------------------------
\* what _parse_expression returns, or the exception it raises (err)
Parsed(err, type, val, alts, spans, len, neg) ==
    [err |-> err, type |-> type, val |-> val, alts |-> alts, spans |-> spans,
     len |-> len, neg |-> neg]

\* position of the first "]" at or after p, 0 when there is none
RECURSIVE class_end(_, _)
class_end(pat, p) ==
    IF p > Len(pat) THEN 0
    ELSE IF pat[p] = "]" THEN p
    ELSE class_end(pat, p + 1)

parse_atom(pat) ==
    IF pat[1] = "\\"
    THEN IF Len(pat) < 2
         THEN Parsed("IndexError", "", "", <<>>, <<>>, 0, FALSE)
         ELSE LET esc == pat[2]
              IN  IF is_digit(esc)
                  THEN Parsed("", "backref", DigitValue(esc), <<>>, <<>>, 2, FALSE)
                  ELSE IF esc \in {"d", "w"}
                  THEN Parsed("", "escape", esc, <<>>, <<>>, 2, FALSE)
                  ELSE Parsed("", "literal", esc, <<>>, <<>>, 2, FALSE)
    ELSE IF pat[1] = "["
    THEN LET neg   == Len(pat) >= 2 /\ pat[2] = "^"
             start == IF neg THEN 3 ELSE 2
             p     == class_end(pat, start)
         IN  IF p = 0
             THEN Parsed("ValueError", "", "", <<>>, <<>>, 0, FALSE)
             ELSE Parsed("", "class", SubSeq(pat, start, p - 1), <<>>, <<>>, p, neg)
    ELSE IF pat[1] = "."
    THEN Parsed("", "wildcard", ".", <<>>, <<>>, 1, FALSE)
    ELSE Parsed("", "literal", pat[1], <<>>, <<>>, 1, FALSE)

\* position of the ")" that closes the "(" at start_idx, 0 when the loop
\* runs off the pattern (the source raises ValueError)
RECURSIVE find_paren_from(_, _, _)
find_paren_from(pat, i, depth) ==
    IF i > Len(pat) THEN 0
    ELSE IF pat[i] = "(" THEN find_paren_from(pat, i + 1, depth + 1)
    ELSE IF pat[i] = ")"
    THEN IF depth - 1 = 0 THEN i ELSE find_paren_from(pat, i + 1, depth - 1)
    ELSE find_paren_from(pat, i + 1, depth)

find_matching_paren(pat, start_idx) == find_paren_from(pat, start_idx + 1, 1)

\* the parts of _split_alternatives as <<first, last>> positions in content
RECURSIVE split_spans_from(_, _, _, _, _)
split_spans_from(content, i, depth, last, parts) ==
    IF i > Len(content) THEN Append(parts, <<last, Len(content)>>)
    ELSE IF content[i] = "("
    THEN split_spans_from(content, i + 1, depth + 1, last, parts)
    ELSE IF content[i] = ")"
    THEN split_spans_from(content, i + 1, depth - 1, last, parts)
    ELSE IF content[i] = "|" /\ depth = 0
    THEN split_spans_from(content, i + 1, depth, i + 1,
                          Append(parts, <<last, i - 1>>))
    ELSE split_spans_from(content, i + 1, depth, last, parts)

split_spans(content) == split_spans_from(content, 1, 0, 1, <<>>)

split_alternatives(content) ==
    LET sp == split_spans(content)
    IN  [k \in 1..Len(sp) |-> SubSeq(content, sp[k][1], sp[k][2])]

parse_expression(pat) ==
    IF pat[1] = "("
    THEN LET end_idx == find_matching_paren(pat, 1)
             inner   == SubSeq(pat, 2, end_idx - 1)
         IN  IF end_idx = 0
             THEN Parsed("ValueError", "", "", <<>>, <<>>, 0, FALSE)
             ELSE Parsed("", "group", "", split_alternatives(inner),
                         split_spans(inner), end_idx, FALSE)
    ELSE parse_atom(pat)

\* the quantifier that follows an expression of `consumed` characters
quant_of(pat, consumed) ==
    IF consumed < Len(pat) /\ pat[consumed + 1] \in {"+", "?", "*"}
    THEN pat[consumed + 1]
    ELSE "none"

\* number of pattern characters taken by the expression and its quantifier
head_len(pat, consumed) ==
    consumed + (IF quant_of(pat, consumed) # "none" THEN 1 ELSE 0)

remainder_of(pat, consumed) == Drop(pat, head_len(pat, consumed))

\* ------------------------------------------------------------------------
\*  Atom matcher factory
\* ------------------------------------------------------------------------
\* TRUE when _matcher_for returns None (no branch of it applies)
matcher_is_none(atom_type, atom_val) ==
    ~(\/ atom_type = "escape" /\ atom_val \in {"d", "w"}
      \/ atom_type \in {"literal", "class", "wildcard"})

\* the predicate _matcher_for returns, applied to c
matcher_for(atom_type, atom_val, neg, c) ==
    IF atom_type = "escape"
    THEN IF atom_val = "d" THEN is_digit(c)
         ELSE is_alpha(c) \/ is_digit(c) \/ is_underscore(c)
    ELSE IF atom_type = "literal" THEN c = atom_val
    ELSE IF atom_type = "class" THEN match_class(c, atom_val, neg)
    ELSE TRUE

\* the `while reps < len(text) and matcher(text[reps])` loops
RECURSIVE count_reps(_, _, _, _, _)
count_reps(text, atom_type, atom_val, neg, reps) ==
    IF reps < Len(text) /\ matcher_for(atom_type, atom_val, neg, text[reps + 1])
    THEN count_reps(text, atom_type, atom_val, neg, reps + 1)
    ELSE reps

\* ------------------------------------------------------------------------
\*  Anchors
\* ------------------------------------------------------------------------
strip_anchors(pat) ==
    LET start == Len(pat) >= 1 /\ pat[1] = "^"
        end   == Len(pat) >= 1 /\ pat[Len(pat)] = "$"
    IN  [start |-> start, end |-> end,
         core  |-> SubSeq(pat, (IF start THEN 2 ELSE 1),
                          Len(pat) - (IF end THEN 1 ELSE 0))]


\* ------------------------------------------------------------------------
\*  Inputs
\* ------------------------------------------------------------------------
TextAlphabet == {"a", "b"}

PatAlphabet == {"a", "(", ")", "+", "|", "\\"}

\* all sequences over S of length at most n
SeqsUpTo(S, n) == UNION {[1..k -> S] : k \in 0..n}

\* texts that hold pattern metacharacters and digits
ExtraTexts ==
    { <<"^", "a">>, <<"a", "$">>, <<"$">>, <<"(", "a">>, <<")">>,
      <<"a", "b", "a", "b">>, <<"a", "a", "b", "a", "a">>, <<"1", "_">> }

Texts == SeqsUpTo(TextAlphabet, MaxTextLen) \cup ExtraTexts

\* patterns that exercise the branches of the engine
CuratedBodies ==
    {
      \* [ab
      <<"[", "a", "b">>,
      \* a[b
      <<"a", "[", "b">>,
      \* (a
      <<"(", "a">>,
      \* a(b
      <<"a", "(", "b">>,
      \* [a]
      <<"[", "a", "]">>,
      \* [^a]b+
      <<"[", "^", "a", "]", "b", "+">>,
      \* [a-b]+
      <<"[", "a", "-", "b", "]", "+">>,
      \* []a
      <<"[", "]", "a">>,
      \* \$
      <<"\\", "$">>,
      \* a\$
      <<"a", "\\", "$">>,
      \* (a)*
      <<"(", "a", ")", "*">>,
      \* (a)*b
      <<"(", "a", ")", "*", "b">>,
      \* ()
      <<"(", ")">>,
      \* (|a)b
      <<"(", "|", "a", ")", "b">>,
      \* a?b
      <<"a", "?", "b">>,
      \* a+b
      <<"a", "+", "b">>,
      \* a*b
      <<"a", "*", "b">>,
      \* a+a
      <<"a", "+", "a">>,
      \* a*a
      <<"a", "*", "a">>,
      \* a?a
      <<"a", "?", "a">>,
      \* .+b
      <<".", "+", "b">>,
      \* \w*b
      <<"\\", "w", "*", "b">>,
      \* \d+_
      <<"\\", "d", "+", "_">>,
      \* (a)?(b)
      <<"(", "a", ")", "?", "(", "b", ")">>,
      \* ((a)|b)(b)
      <<"(", "(", "a", ")", "|", "b", ")", "(", "b", ")">>,
      \* (a|(b))(a)
      <<"(", "a", "|", "(", "b", ")", ")", "(", "a", ")">>,
      \* (a)(b)
      <<"(", "a", ")", "(", "b", ")">>,
      \* (a|b)b
      <<"(", "a", "|", "b", ")", "b">>,
      \* \0
      <<"\\", "0">>,
      \* (a)\0
      <<"(", "a", ")", "\\", "0">>,
      \* \1
      <<"\\", "1">>,
      \* (a)\2
      <<"(", "a", ")", "\\", "2">>,
      \* (a)\1
      <<"(", "a", ")", "\\", "1">>,
      \* (a)?(b)\1
      <<"(", "a", ")", "?", "(", "b", ")", "\\", "1">>,
      \* \1(a)
      <<"\\", "1", "(", "a", ")">>,
      \* (a+)b\1
      <<"(", "a", "+", ")", "b", "\\", "1">>,
      \* (a|b)\1
      <<"(", "a", "|", "b", ")", "\\", "1">>,
      \* ^a
      <<"^", "a">>,
      \* a$
      <<"a", "$">>,
      \* ^
      <<"^">>,
      \* $
      <<"$">>,
      \* ^a+
      <<"^", "a", "+">>,
      \* b$
      <<"b", "$">>,
      \* (ab)+
      <<"(", "a", "b", ")", "+">>,
      \* (a|b)+
      <<"(", "a", "|", "b", ")", "+">>,
      \* (a|b)+b
      <<"(", "a", "|", "b", ")", "+", "b">>,
      \* (a|ab)+
      <<"(", "a", "|", "a", "b", ")", "+">>,
      \* ((a)|b)+
      <<"(", "(", "a", ")", "|", "b", ")", "+">>,
      \* (a)?(b)+
      <<"(", "a", ")", "?", "(", "b", ")", "+">>,
      \* (a+)+
      <<"(", "a", "+", ")", "+">>,
      \* (a)+a
      <<"(", "a", ")", "+", "a">>,
      \* (a|b)+\1
      <<"(", "a", "|", "b", ")", "+", "\\", "1">>,
      \* (\()
      <<"(", "\\", "(", ")">>,
      \* (\))
      <<"(", "\\", ")", ")">>,
      \* (a\))
      <<"(", "a", "\\", ")", ")">>,
      \* (\(a)
      <<"(", "\\", "(", "a", ")">>,
      \* \(a\)
      <<"\\", "(", "a", "\\", ")">>,
      \* (a|\))
      <<"(", "a", "|", "\\", ")", ")">>,
      \* ()+
      <<"(", ")", "+">>,
      \* (a|)+
      <<"(", "a", "|", ")", "+">>,
      \* (a?)+
      <<"(", "a", "?", ")", "+">>,
      \* (a*)+
      <<"(", "a", "*", ")", "+">>,
      \* (a)+?
      <<"(", "a", ")", "+", "?">>
    }

Bodies == CuratedBodies \cup SeqsUpTo(PatAlphabet, MaxPatLen)

\* ------------------------------------------------------------------------
\*  State
\* ------------------------------------------------------------------------
VARIABLES
    body,        \* the pattern body the run is about
    text,        \* the argument of matches
    job,         \* 1: the engine of body; 2: the engine of "^" + body + "$"
    first,       \* what job 1 ended with
    phase,       \* "new", "ready" (constructed), "run" (in matches), "done"
    pattern,     \* self.pattern
    num_groups,  \* self.num_groups
    captures,    \* self.captures
    i,           \* the offset loop variable of matches
    stack,       \* the live generators
    cur,         \* the generator that runs (0: matches itself)
    sig,         \* "run", "yield" or "stop"
    yv,          \* the pair last yielded
    result       \* "none", "True", "False" or the exception raised

vars == <<body, text, job, first, phase, pattern, num_groups, captures, i,
          stack, cur, sig, yv, result>>

\* a generator object: the locals of its function and where it stands.
\* kind "MI": _match_inner(text, pat, gidx); "MGO": match_group_once(text,
\* gidx) and "PR": plus_recurse(text, gidx), both closed over alts and tg
\* (this_group).  off (how many pattern characters precede pat, or the
\* group's "(") , starts (the same for each alternative) and caps0 (the
\* captures when the generator was created) are read by no action.
Frame(kind, parent, txt, pat, gidx, tg, alts, starts, off, caps) ==
    [kind |-> kind, pc |-> "start", parent |-> parent, text |-> txt,
     pat |-> pat, gidx |-> gidx, tg |-> tg, alts |-> alts, starts |-> starts,
     br |-> "", ai |-> 0, saved |-> <<>>, mlen |-> 0, idx |-> 0, rlen |-> 0,
     used |-> 0, reps |-> 0, gen2 |-> 0, off |-> off, caps0 |-> caps]

MIFrame(parent, txt, pat, gidx, off, caps) ==
    Frame("MI", parent, txt, pat, gidx, 0, <<>>, <<>>, off, caps)

F == stack[cur]

\* parse results of the running _match_inner
P == parse_expression(F.pat)
Q == quant_of(F.pat, P.len)
R == remainder_of(F.pat, P.len)
ROff == F.off + head_len(F.pat, P.len)

At(kind, pc, s) ==
    /\ phase = "run"
    /\ cur > 0
    /\ sig = s
    /\ F.kind = kind
    /\ F.pc = pc

\* --- transfers of control ---------------------------------------------
\* an exception leaves matches
Raise(e) ==
    /\ result' = e
    /\ phase' = "done"
    /\ UNCHANGED <<stack, cur, sig, yv>>

\* the running generator, left as `me`, calls next() on a new generator
Call(me, child) ==
    IF Len(stack) >= MaxDepth
    THEN Raise("RecursionError")
    ELSE /\ stack' = Append([stack EXCEPT ![cur] = me], child)
         /\ cur' = Len(stack) + 1
         /\ sig' = "run"
         /\ UNCHANGED <<yv, result, phase>>

\* the running generator, left as `me`, calls next() on generator j again
Resume(me, j) ==
    /\ stack' = [stack EXCEPT ![cur] = me]
    /\ cur' = j
    /\ sig' = "run"
    /\ UNCHANGED <<yv, result, phase>>

\* the running generator, left as `me`, yields (len, idx)
Yield(me, len, idx) ==
    /\ stack' = [stack EXCEPT ![cur] = me]
    /\ cur' = me.parent
    /\ sig' = "yield"
    /\ yv' = <<len, idx>>
    /\ UNCHANGED <<result, phase>>

\* the running generator returns
Return ==
    /\ stack' = Take(stack, cur - 1)
    /\ cur' = F.parent
    /\ sig' = "stop"
    /\ UNCHANGED <<yv, result, phase>>

Same == UNCHANGED <<body, text, job, first, pattern, num_groups, captures, i>>

SameBut == UNCHANGED <<body, text, job, first, pattern, num_groups, i>>


\* ------------------------------------------------------------------------
\*  MiniRegex.__init__ and matches
\* ------------------------------------------------------------------------
A == strip_anchors(pattern)

CoreOff == IF A.start THEN 1 ELSE 0

\* engine = MiniRegex(pattern)
Construct ==
    /\ phase = "new"
    /\ pattern' = (IF job = 1 THEN body ELSE <<"^">> \o body \o <<"$">>)
    /\ captures' = <<>>
    /\ num_groups' = count_groups(pattern')
    /\ phase' = "ready"
    /\ UNCHANGED <<body, text, job, first, i, stack, cur, sig, yv, result>>

\* matches(text) with the loop over the offsets started at offset 1
MatchesStart_at_one ==
    /\ phase = "ready"
    /\ captures' = [k \in 1..num_groups |-> None]
    /\ i' = (IF A.start THEN 0 ELSE 1)
    /\ stack' = <<MIFrame(0, Drop(text, i'), A.core, 0, CoreOff, captures')>>
    /\ cur' = 1
    /\ sig' = "run"
    /\ phase' = "run"
    /\ UNCHANGED <<body, text, job, first, pattern, num_groups, yv, result>>

\* matches(text) up to its first next() on the generator
MatchesStart ==
    /\ phase = "ready"
    /\ captures' = [k \in 1..num_groups |-> None]
    /\ i' = 0
    /\ stack' = <<MIFrame(0, text, A.core, 0, CoreOff, captures')>>
    /\ cur' = 1
    /\ sig' = "run"
    /\ phase' = "run"
    /\ UNCHANGED <<body, text, job, first, pattern, num_groups, yv, result>>

\* the test any() or next() applies to a yielded length
Accepts(length) ==
    IF A.end
    THEN (IF A.start THEN length ELSE i + length) = Len(text)
    ELSE TRUE

MatchesReturnTrue ==
    /\ phase = "run" /\ cur = 0 /\ sig = "yield"
    /\ Accepts(yv[1])
    /\ result' = "True"
    /\ phase' = "done"
    /\ UNCHANGED <<stack, cur, sig, yv>>
    /\ Same

\* any() asks the generator for its next result
MatchesNextResult ==
    /\ phase = "run" /\ cur = 0 /\ sig = "yield"
    /\ ~Accepts(yv[1])
    /\ cur' = 1
    /\ sig' = "run"
    /\ UNCHANGED <<stack, yv, result, phase>>
    /\ Same

\* the generator of offset i is exhausted: the next offset
MatchesNextOffset ==
    /\ phase = "run" /\ cur = 0 /\ sig = "stop"
    /\ ~A.start
    /\ i + 1 <= Len(text)
    /\ i' = i + 1
    /\ stack' = <<MIFrame(0, Drop(text, i + 1), A.core, 0, CoreOff, captures)>>
    /\ cur' = 1
    /\ sig' = "run"
    /\ UNCHANGED <<body, text, job, first, pattern, num_groups, captures,
                   yv, result, phase>>

MatchesReturnFalse ==
    /\ phase = "run" /\ cur = 0 /\ sig = "stop"
    /\ A.start \/ i + 1 > Len(text)
    /\ result' = "False"
    /\ phase' = "done"
    /\ UNCHANGED <<stack, cur, sig, yv>>
    /\ Same

\* the second engine, of "^" + body + "$", on the same text
NextJob ==
    /\ phase = "done"
    /\ job = 1
    /\ job' = 2
    /\ first' = result
    /\ phase' = "new"
    /\ result' = "none"
    /\ stack' = <<>>
    /\ cur' = 0
    /\ sig' = "run"
    /\ yv' = <<0, 0>>
    /\ i' = 0
    /\ UNCHANGED <<body, text, pattern, num_groups, captures>>

\* ------------------------------------------------------------------------
\*  _match_inner
\* ------------------------------------------------------------------------
IsAtom == P.type \notin {"group", "backref"}

\* `if not pat: yield 0, group_idx`
MatchInner_Empty ==
    /\ At("MI", "start", "run")
    /\ F.pat = <<>>
    /\ Yield([F EXCEPT !.pc = "end"], 0, F.gidx)
    /\ Same

\* the return that follows a last yield
MatchInner_Return ==
    /\ At("MI", "end", "run")
    /\ Return
    /\ Same

\* _parse_expression raises
MatchInner_ParseError ==
    /\ At("MI", "start", "run")
    /\ F.pat # <<>>
    /\ P.err # ""
    /\ Raise(P.err)
    /\ Same

\* a group with no quantifier, "?" or "+": the first next() on
\* match_group_once or plus_recurse
MatchInner_Group ==
    /\ At("MI", "start", "run")
    /\ F.pat # <<>>
    /\ P.err = ""
    /\ P.type = "group"
    /\ Q \in {"none", "?", "+"}
    /\ LET this_group == F.gidx + 1
           starts == [k \in 1..Len(P.spans) |-> F.off + P.spans[k][1]]
           br == CASE Q = "none" -> "group" [] Q = "?" -> "grpopt"
                   [] Q = "+" -> "grpplus"
       IN  Call([F EXCEPT !.pc = "grp", !.br = br, !.tg = this_group],
                Frame((IF Q = "+" THEN "PR" ELSE "MGO"), cur, F.text, <<>>,
                      this_group, this_group, P.alts, starts, F.off, captures))
    /\ Same

\* the group matched mlen characters: search the remainder behind them
MatchInner_GroupYield ==
    /\ At("MI", "grp", "yield")
    /\ Call([F EXCEPT !.pc = "rem", !.mlen = yv[1], !.idx = yv[2],
                      !.gen2 = Len(stack) + 1],
            MIFrame(cur, Drop(F.text, yv[1]), R, yv[2], ROff, captures))
    /\ Same

\* the length the head of the sequence took on the current path
Base(f) == IF f.br \in {"plus", "star"} THEN f.used ELSE f.mlen

\* `yield <head> + rlen, r_idx`
MatchInner_TailYield ==
    /\ At("MI", "rem", "yield")
    /\ Yield([F EXCEPT !.pc = "remy", !.rlen = yv[1]], Base(F) + yv[1], yv[2])
    /\ Same

\* resumed after that yield: the next result of the remainder
MatchInner_TailResume ==
    /\ At("MI", "remy", "run")
    /\ Resume([F EXCEPT !.pc = "rem"], F.gen2)
    /\ Same

\* the remainder is exhausted behind a group: the group's next result
MatchInner_GroupNext ==
    /\ At("MI", "rem", "stop")
    /\ F.br \in {"group", "grpopt", "grpplus"}
    /\ Resume([F EXCEPT !.pc = "grp"], cur + 1)
    /\ Same

\* the group is exhausted
MatchInner_GroupDone ==
    /\ At("MI", "grp", "stop")
    /\ F.br \in {"group", "grpplus"}
    /\ Return
    /\ Same

\* the "?" group is exhausted: the remainder without it
MatchInner_GroupAbsent ==
    /\ At("MI", "grp", "stop")
    /\ F.br = "grpopt"
    /\ Call([F EXCEPT !.pc = "rem", !.br = "absent", !.mlen = 0,
                      !.gen2 = Len(stack) + 1],
            MIFrame(cur, F.text, R, F.gidx, ROff, captures))
    /\ Same

\* the stop of `range(reps, -1, -1)`: the candidates of "*" end above it
star_stop == -1

\* "+" enumerating its candidates as "*" does, down to length 0
plus_stop_as_star == star_stop

\* the stop of `range(reps, 0, -1)`: the candidates of "+" end above it
plus_stop == 0

\* the remainder is exhausted and no candidate is left
MatchInner_TailDone ==
    /\ At("MI", "rem", "stop")
    /\ \/ F.br \in {"absent", "backref", "single", "opt0"}
       \/ F.br = "plus" /\ F.used - 1 <= plus_stop
       \/ F.br = "star" /\ F.used - 1 <= star_stop
    /\ Return
    /\ Same

\* Python's list[k] for k >= -1
PyItem(list, k) ==
    IF k >= 0
    THEN (IF k < Len(list) THEN [err |-> "", val |-> list[k + 1]]
                           ELSE [err |-> "IndexError", val |-> None])
    ELSE (IF Len(list) >= 1 THEN [err |-> "", val |-> list[Len(list)]]
                            ELSE [err |-> "IndexError", val |-> None])

\* the test of the backreference branch and the capture it reads
BackrefRead(ref, caps) ==
    IF ~(ref <= Len(caps)) THEN [err |-> "", val |-> None]
    ELSE PyItem(caps, ref - 1)

\* a backreference whose capture the text starts with
MatchInner_Backref ==
    /\ At("MI", "start", "run")
    /\ F.pat # <<>>
    /\ P.err = ""
    /\ P.type = "backref"
    /\ LET rd == BackrefRead(P.val, captures)
       IN  /\ rd.err = ""
           /\ rd.val # None
           /\ startswith(F.text, rd.val)
           /\ Call([F EXCEPT !.pc = "rem", !.br = "backref",
                             !.mlen = Len(rd.val), !.gen2 = Len(stack) + 1],
                   MIFrame(cur, Drop(F.text, Len(rd.val)), R, F.gidx, ROff,
                           captures))
    /\ Same

\* a backreference that yields nothing
MatchInner_BackrefFail ==
    /\ At("MI", "start", "run")
    /\ F.pat # <<>>
    /\ P.err = ""
    /\ P.type = "backref"
    /\ LET rd == BackrefRead(P.val, captures)
       IN  /\ rd.err = ""
           /\ rd.val = None \/ ~startswith(F.text, rd.val)
    /\ Return
    /\ Same

\* self.captures[ref - 1] raises
MatchInner_BackrefError ==
    /\ At("MI", "start", "run")
    /\ F.pat # <<>>
    /\ P.err = ""
    /\ P.type = "backref"
    /\ BackrefRead(P.val, captures).err # ""
    /\ Raise(BackrefRead(P.val, captures).err)
    /\ Same

AtomStart(q) ==
    /\ At("MI", "start", "run")
    /\ F.pat # <<>>
    /\ P.err = ""
    /\ Q = q

SearchTail(me, used) ==
    Call([me EXCEPT !.pc = "rem", !.gen2 = Len(stack) + 1],
         MIFrame(cur, Drop(F.text, used), R, F.gidx, ROff, captures))

FirstMatches ==
    F.text # <<>> /\ matcher_for(P.type, P.val, P.neg, F.text[1])

\* an atom with no quantifier
MatchInner_Single ==
    /\ AtomStart("none")
    /\ IsAtom
    /\ IF FirstMatches
       THEN SearchTail([F EXCEPT !.br = "single", !.mlen = 1], 1)
       ELSE Return
    /\ Same


\* an atom with "+"
MatchInner_Plus ==
    /\ AtomStart("+")
    /\ IsAtom
    /\ IF ~FirstMatches
       THEN Return
       ELSE LET reps == count_reps(F.text, P.type, P.val, P.neg, 1)
            IN  SearchTail([F EXCEPT !.br = "plus", !.reps = reps,
                               !.used = reps], reps)
    /\ Same

\* `for used in range(reps, 0, -1)`: the next shorter candidate
MatchInner_PlusNext ==
    /\ At("MI", "rem", "stop")
    /\ F.br = "plus"
    /\ F.used - 1 > plus_stop
    /\ SearchTail([F EXCEPT !.used = F.used - 1], F.used - 1)
    /\ Same

\* an atom with "?"
MatchInner_Opt ==
    /\ AtomStart("?")
    /\ IsAtom
    /\ IF FirstMatches
       THEN SearchTail([F EXCEPT !.br = "opt1", !.mlen = 1], 1)
       ELSE SearchTail([F EXCEPT !.br = "opt0", !.mlen = 0], 0)
    /\ Same

\* the remainder is exhausted behind the character: the remainder without it
MatchInner_OptAbsent ==
    /\ At("MI", "rem", "stop")
    /\ F.br = "opt1"
    /\ SearchTail([F EXCEPT !.br = "opt0", !.mlen = 0], 0)
    /\ Same

\* "*": an atom, or a group (which no group branch handles, and whose
\* matcher is None)
MatchInner_Star ==
    /\ AtomStart("*")
    /\ P.type # "backref"
    /\ IF matcher_is_none(P.type, P.val)
       THEN IF 0 < Len(F.text)
            THEN Raise("TypeError")
            ELSE SearchTail([F EXCEPT !.br = "star", !.reps = 0, !.used = 0], 0)
       ELSE LET reps == count_reps(F.text, P.type, P.val, P.neg, 0)
            IN  SearchTail([F EXCEPT !.br = "star", !.reps = reps, !.used = reps],
                     reps)
    /\ Same

\* `for used in range(reps, -1, -1)`: the next shorter candidate
MatchInner_StarNext ==
    /\ At("MI", "rem", "stop")
    /\ F.br = "star"
    /\ F.used - 1 > star_stop
    /\ SearchTail([F EXCEPT !.used = F.used - 1], F.used - 1)
    /\ Same


\* ------------------------------------------------------------------------
\*  match_group_once
\* ------------------------------------------------------------------------
\* `self.captures[this_group - 1] = inp[:alt_len]`
set_capture(caps, this_group, inp, alt_len) ==
    [caps EXCEPT ![this_group] = Take(inp, alt_len)]

\* the restore left out: the captures stay as the alternative left them
restore_dropped(caps, saved) == caps

\* `self.captures = saved`
restore(caps, saved) == saved

\* the first alternative: snapshot the captures and search it
GroupOnce_Start ==
    /\ At("MGO", "start", "run")
    /\ Call([F EXCEPT !.pc = "alt", !.ai = 1, !.saved = captures],
            MIFrame(cur, F.text, F.alts[1], F.gidx, F.starts[1], captures))
    /\ Same

\* the alternative matched alt_len characters: record the capture, yield
GroupOnce_Yield ==
    /\ At("MGO", "alt", "yield")
    /\ IF F.tg - 1 >= Len(captures)
       THEN /\ Raise("IndexError")
            /\ UNCHANGED captures
       ELSE /\ captures' = set_capture(captures, F.tg, F.text, yv[1])
            /\ Yield([F EXCEPT !.pc = "alty", !.mlen = yv[1], !.idx = yv[2]],
                     yv[1], yv[2])
    /\ SameBut

\* resumed after the yield: the alternative's next result
GroupOnce_Resume ==
    /\ At("MGO", "alty", "run")
    /\ Resume([F EXCEPT !.pc = "alt"], cur + 1)
    /\ Same

\* the alternative is exhausted: restore the captures, search the next one
GroupOnce_NextAlt ==
    /\ At("MGO", "alt", "stop")
    /\ F.ai < Len(F.alts)
    /\ captures' = restore(captures, F.saved)
    /\ Call([F EXCEPT !.ai = F.ai + 1, !.saved = captures'],
            MIFrame(cur, F.text, F.alts[F.ai + 1], F.gidx, F.starts[F.ai + 1],
                    captures'))
    /\ SameBut

\* the last alternative is exhausted: restore the captures, return
GroupOnce_Return ==
    /\ At("MGO", "alt", "stop")
    /\ F.ai >= Len(F.alts)
    /\ captures' = restore(captures, F.saved)
    /\ Return
    /\ SameBut

\* ------------------------------------------------------------------------
\*  plus_recurse
\* ------------------------------------------------------------------------
\* the first next() on match_group_once(inp, gidx)
PlusRecurse_Start ==
    /\ At("PR", "start", "run")
    /\ Call([F EXCEPT !.pc = "once"],
            Frame("MGO", cur, F.text, <<>>, F.gidx, F.tg, F.alts, F.starts,
                  F.off, captures))
    /\ Same

\* one repetition matched: snapshot the captures, try more repetitions
PlusRecurse_OnceYield ==
    /\ At("PR", "once", "yield")
    /\ Call([F EXCEPT !.pc = "more", !.saved = captures, !.mlen = yv[1],
                      !.idx = yv[2], !.gen2 = Len(stack) + 1],
            Frame("PR", cur, Drop(F.text, yv[1]), <<>>, F.gidx, F.tg, F.alts,
                  F.starts, F.off, captures))
    /\ Same

\* `yield one_len + more_len, more_idx`
PlusRecurse_MoreYield ==
    /\ At("PR", "more", "yield")
    /\ Yield([F EXCEPT !.pc = "morey", !.rlen = yv[1]], F.mlen + yv[1], yv[2])
    /\ Same

\* resumed after that yield: the next result of the further repetitions
PlusRecurse_MoreResume ==
    /\ At("PR", "morey", "run")
    /\ Resume([F EXCEPT !.pc = "more"], F.gen2)
    /\ Same

\* no further repetition is left: restore, `yield one_len, one_idx`
PlusRecurse_MoreDone ==
    /\ At("PR", "more", "stop")
    /\ captures' = F.saved
    /\ Yield([F EXCEPT !.pc = "oney"], F.mlen, F.idx)
    /\ SameBut

\* resumed after that yield: the next result of match_group_once
PlusRecurse_OnceResume ==
    /\ At("PR", "oney", "run")
    /\ Resume([F EXCEPT !.pc = "once"], cur + 1)
    /\ Same

\* match_group_once is exhausted
PlusRecurse_Return ==
    /\ At("PR", "once", "stop")
    /\ Return
    /\ Same

\* ------------------------------------------------------------------------
\*  Specification
\* ------------------------------------------------------------------------
Init ==
    /\ body \in Bodies
    /\ text \in Texts
    /\ job = 1
    /\ first = "none"
    /\ phase = "new"
    /\ pattern = <<>>
    /\ num_groups = 0
    /\ captures = <<>>
    /\ i = 0
    /\ stack = <<>>
    /\ cur = 0
    /\ sig = "run"
    /\ yv = <<0, 0>>
    /\ result = "none"

Next ==
    \/ Construct
    \/ MatchesStart
    \/ MatchesReturnTrue
    \/ MatchesNextResult
    \/ MatchesNextOffset
    \/ MatchesReturnFalse
    \/ NextJob
    \/ MatchInner_Empty
    \/ MatchInner_Return
    \/ MatchInner_ParseError
    \/ MatchInner_Group
    \/ MatchInner_GroupYield
    \/ MatchInner_TailYield
    \/ MatchInner_TailResume
    \/ MatchInner_GroupNext
    \/ MatchInner_GroupDone
    \/ MatchInner_GroupAbsent
    \/ MatchInner_TailDone
    \/ MatchInner_Backref
    \/ MatchInner_BackrefFail
    \/ MatchInner_BackrefError
    \/ MatchInner_Single
    \/ MatchInner_Plus
    \/ MatchInner_PlusNext
    \/ MatchInner_Opt
    \/ MatchInner_OptAbsent
    \/ MatchInner_Star
    \/ MatchInner_StarNext
    \/ GroupOnce_Start
    \/ GroupOnce_Yield
    \/ GroupOnce_Resume
    \/ GroupOnce_NextAlt
    \/ GroupOnce_Return
    \/ PlusRecurse_Start
    \/ PlusRecurse_OnceYield
    \/ PlusRecurse_MoreYield
    \/ PlusRecurse_MoreResume
    \/ PlusRecurse_MoreDone
    \/ PlusRecurse_OnceResume
    \/ PlusRecurse_Return

Spec == Init /\ [][Next]_vars


\* ------------------------------------------------------------------------
\*  What the claims speak of
\* ------------------------------------------------------------------------
Frames == 1..Len(stack)

AllUnset == \A k \in 1..Len(captures) : captures[k] = None

\* position of the "]" that ends the class opened at k, 0 when none does
RECURSIVE FirstClose(_, _)
FirstClose(p, k) ==
    IF k > Len(p) THEN 0 ELSE IF p[k] = "]" THEN k ELSE FirstClose(p, k + 1)

ClassClose(p, k) ==
    FirstClose(p, IF k + 1 <= Len(p) /\ p[k + 1] = "^" THEN k + 2 ELSE k + 1)

\* balanced unescaped parentheses, terminated classes, every backslash
\* followed by a character
RECURSIVE WellFormedFrom(_, _, _)
WellFormedFrom(p, k, depth) ==
    IF k > Len(p) THEN depth = 0
    ELSE IF p[k] = "\\" THEN k + 1 <= Len(p) /\ WellFormedFrom(p, k + 2, depth)
    ELSE IF p[k] = "["
    THEN ClassClose(p, k) # 0 /\ WellFormedFrom(p, ClassClose(p, k) + 1, depth)
    ELSE IF p[k] = "(" THEN WellFormedFrom(p, k + 1, depth + 1)
    ELSE IF p[k] = ")" THEN depth > 0 /\ WellFormedFrom(p, k + 1, depth - 1)
    ELSE WellFormedFrom(p, k + 1, depth)

WellFormed(p) == WellFormedFrom(p, 1, 0)

\* an unterminated character class, or a "(" with no matching ")"
RECURSIVE ParseErrorFrom(_, _, _)
ParseErrorFrom(p, k, depth) ==
    IF k > Len(p) THEN depth > 0
    ELSE IF p[k] = "\\" THEN ParseErrorFrom(p, k + 2, depth)
    ELSE IF p[k] = "["
    THEN ClassClose(p, k) = 0 \/ ParseErrorFrom(p, ClassClose(p, k) + 1, depth)
    ELSE IF p[k] = "(" THEN ParseErrorFrom(p, k + 1, depth + 1)
    ELSE IF p[k] = ")"
    THEN ParseErrorFrom(p, k + 1, IF depth > 0 THEN depth - 1 ELSE 0)
    ELSE ParseErrorFrom(p, k + 1, depth)

HasParseError(p) == ParseErrorFrom(p, 1, 0)

\* number of unescaped "(" among the first n characters of p
RECURSIVE UnescapedOpens(_, _, _)
UnescapedOpens(p, k, n) ==
    IF k > n THEN 0
    ELSE IF p[k] = "\\" THEN UnescapedOpens(p, k + 2, n)
    ELSE (IF p[k] = "(" THEN 1 ELSE 0) + UnescapedOpens(p, k + 1, n)

\* source-order number of the group whose "(" follows off pattern characters
SourceOrderIndex(off) == UnescapedOpens(pattern, 1, off + 1)

\* for p that starts with "(": the unescaped ")" that balances it when only
\* unescaped parentheses are counted, 0 when there is none
RECURSIVE UnescapedCloseFrom(_, _, _)
UnescapedCloseFrom(p, k, depth) ==
    IF k > Len(p) THEN 0
    ELSE IF p[k] = "\\" THEN UnescapedCloseFrom(p, k + 2, depth)
    ELSE IF p[k] = "(" THEN UnescapedCloseFrom(p, k + 1, depth + 1)
    ELSE IF p[k] = ")"
    THEN IF depth = 1 THEN k ELSE UnescapedCloseFrom(p, k + 1, depth - 1)
    ELSE UnescapedCloseFrom(p, k + 1, depth)

UnescapedClose(p) == UnescapedCloseFrom(p, 2, 1)

\* ------------------------------------------------------------------------
\*  Claims
\* ------------------------------------------------------------------------

\* C1: a pattern with an unterminated character class or an unclosed "("
\* is rejected by the constructor: no engine is ever constructed for it and
\* no call of matches on it returns a boolean.
C1_ParseErrorAtConstruction ==
    HasParseError(pattern) =>
        /\ phase \notin {"ready", "run"}
        /\ result \notin {"True", "False"}

\* C2: on a well-formed pattern matches raises no error, whatever the text.
C2_NoErrorOnWellFormed ==
    WellFormed(pattern) => result \in {"none", "True", "False"}

\* C3: a group that has written its capture wrote the slot of its
\* source-order number: this_group is the number of unescaped "(" up to and
\* including its own.
C3_PositionalNumbering ==
    \A j \in Frames :
        (stack[j].kind = "MGO" /\ stack[j].pc = "alty")
            => stack[j].tg = SourceOrderIndex(stack[j].off)

\* a generator returns in this step
Returning == phase = "run" /\ cur > 0 /\ sig' = "stop" /\ Len(stack') < Len(stack)

\* the capture slots of the match_group_once generators frame j runs inside
RECURSIVE EnclosingGroups(_)
EnclosingGroups(j) ==
    IF j = 0 THEN {}
    ELSE (IF stack[j].kind = "MGO" THEN {stack[j].tg} ELSE {})
             \cup EnclosingGroups(stack[j].parent)

\* C4 as stated: whenever a search of a pattern sequence (_match_inner) is
\* exhausted, the capture array equals what it was when that search was
\* entered.
C4_SearchRestores ==
    [][(Returning /\ F.kind = "MI") => captures' = F.caps0]_vars

\* the steps of C4 as amended
C4_ReturnsRestore ==
    /\ Returning =>
           \A k \in 1..num_groups :
               k \notin EnclosingGroups(cur) => captures'[k] = F.caps0[k]
    /\ (Returning /\ F.kind \in {"MGO", "PR"}) => captures' = F.caps0
    /\ At("MGO", "alt", "stop") => captures' = F.saved

\* C4 as amended: whenever a generator is exhausted, the capture array
\* equals what it was when the generator was entered in every slot except
\* those of the groups inside whose alternative it runs, and each of those
\* groups restores its snapshot (match_group_once, `self.captures = saved`)
\* as soon as the search of its alternative is exhausted, so that
\* match_group_once and plus_recurse return with the array as they found
\* it; and when matches returns False every capture slot is unset.
C4_CaptureRollback ==
    /\ []((phase = "done" /\ result = "False") => AllUnset)
    /\ [][C4_ReturnsRestore]_vars

\* C4: matches has returned False on a non-empty text after a group matched
\* and wrote its capture (the last pair yielded carries a group cursor of
\* at least 1).
C4_Witness ==
    /\ phase = "done"
    /\ result = "False"
    /\ num_groups >= 1
    /\ text # <<>>
    /\ yv[2] >= 1
    /\ AllUnset

\* C5: a backreference to a group number outside 1..num_groups, or to a
\* group whose capture is unset, makes the path yield nothing and raises
\* nothing.
C5_Unassigned ==
    /\ At("MI", "start", "run")
    /\ F.pat # <<>>
    /\ P.err = ""
    /\ P.type = "backref"
    /\ P.val \notin 1..num_groups \/ captures[P.val] = None

C5_BackrefFailsSilently ==
    [][C5_Unassigned => (result' = result /\ sig' = "stop" /\ cur' = F.parent)]_vars

\* C6 as stated: the engine of "^" + body + "$" never matches a text on
\* which the engine of body returns False.
C6_AnchoringRestricts ==
    ~(job = 2 /\ phase = "done" /\ result = "True" /\ first = "False")

Unanchored(b) == b = <<>> \/ (b[1] # "^" /\ b[Len(b)] # "$")

\* C6 as amended: the same, for a body that neither begins with "^" nor
\* ends with "$".
C6_AnchoringRestrictsUnanchoredBody ==
    (job = 2 /\ phase = "done" /\ result = "True" /\ Unanchored(body))
        => first = "True"

\* C6: the anchored engine has matched a non-empty text with a non-empty
\* body that holds no anchor of its own.
C6_Witness ==
    /\ job = 2
    /\ phase = "done"
    /\ result = "True"
    /\ first = "True"
    /\ body # <<>>
    /\ Unanchored(body)
    /\ text # <<>>

\* the parse of the head of a frame's pattern
PF(f) == parse_expression(f.pat)

\* the maximal run of leading characters of txt the atom a matches
MaxRun(txt, a) ==
    CHOOSE n \in 0..Len(txt) :
        /\ \A k \in 1..n : matcher_for(a.type, a.val, a.neg, txt[k])
        /\ n < Len(txt) => ~matcher_for(a.type, a.val, a.neg, txt[n + 1])

\* frame f searches a sequence that starts with a single-character atom
\* followed by the quantifier q
QuantifiedAtom(f, q) ==
    /\ f.kind = "MI"
    /\ f.pat # <<>>
    /\ PF(f).err = ""
    /\ ~matcher_is_none(PF(f).type, PF(f).val)
    /\ quant_of(f.pat, PF(f).len) = q

\* the running frame hands the text behind its first n characters to the
\* search of the remainder of its sequence
HandsTail(n) ==
    \/ Len(stack) >= MaxDepth
    \/ /\ Len(stack') = Len(stack) + 1
       /\ cur' = Len(stack')
       /\ sig' = "run"
       /\ stack'[cur'].kind = "MI"
       /\ stack'[cur'].parent = cur
       /\ stack'[cur'].text = Drop(F.text, n)
       /\ stack'[cur'].pat = R
       /\ Base(stack'[cur]) = n

\* the lowest candidate length of the quantifier q
LowestCandidate(q) == IF q = "+" THEN 1 ELSE 0

\* the candidate the frame f has handed to the search of its remainder
HasCandidate(j) ==
    /\ stack[j].pc \in {"rem", "remy"}
    /\ stack[j].gen2 <= Len(stack)

\* C7, the states: while a "+" or "*" atom waits for the search of its
\* remainder, the text that search was given is the atom's text less a
\* candidate length between the quantifier's minimum and the maximal run r.
C7_Candidates ==
    \A j \in Frames : \A q \in {"+", "*"} :
        (phase = "run" /\ QuantifiedAtom(stack[j], q) /\ HasCandidate(j)) =>
            LET f == stack[j]
                r == MaxRun(f.text, PF(f))
            IN  /\ Base(f) \in LowestCandidate(q)..r
                /\ stack[f.gen2].parent = j
                /\ stack[f.gen2].text = Drop(f.text, Base(f))

\* C7, the steps of the running frame: the first candidate is r (none for
\* "+" when r = 0), after the candidate n is exhausted the next one is
\* n - 1 and the frame returns only behind the lowest one; "?" hands over
\* length 1 first when the first character matches, then length 0; and
\* every result of the remainder is yielded at once, its length added to
\* the candidate.
C7_Steps ==
    LET r == MaxRun(F.text, PF(F))
    IN  /\ (At("MI", "start", "run") /\ QuantifiedAtom(F, "+")) =>
               IF r = 0 THEN Returning ELSE HandsTail(r)
        /\ (At("MI", "start", "run") /\ QuantifiedAtom(F, "*")) => HandsTail(r)
        /\ (At("MI", "start", "run") /\ QuantifiedAtom(F, "?")) =>
               IF r >= 1 THEN HandsTail(1) ELSE HandsTail(0)
        /\ \A q \in {"+", "*"} :
               (At("MI", "rem", "stop") /\ QuantifiedAtom(F, q)) =>
                   IF Base(F) > LowestCandidate(q)
                   THEN HandsTail(Base(F) - 1)
                   ELSE Returning
        /\ (At("MI", "rem", "stop") /\ QuantifiedAtom(F, "?")) =>
               IF Base(F) = 1 THEN HandsTail(0) ELSE Returning
        /\ \A q \in {"+", "*", "?"} :
               (At("MI", "rem", "yield") /\ QuantifiedAtom(F, q)) =>
                   /\ sig' = "yield"
                   /\ cur' = F.parent
                   /\ yv' = <<Base(F) + yv[1], yv[2]>>
                   /\ Len(F.text) - Len(stack[F.gen2].text) = Base(F)

\* C7: the candidate lengths of a "+" or "*" atom are handed to the tail in
\* the order r, r-1, ..., down to 1 for "+" (none when r = 0) and down to 0
\* for "*", those of "?" in the order 1 (when the first character matches),
\* 0; every result of the tail is yielded as it comes, with the total
\* length the candidate plus the length the tail yielded.
C7_PreferenceOrder ==
    /\ []C7_Candidates
    /\ [][C7_Steps]_vars

\* C7: a "+" atom with a maximal run of at least 2 has yielded a result
\* through its shortest candidate, after the longer ones were exhausted.
C7_Witness ==
    \E j \in Frames :
        /\ phase = "run"
        /\ QuantifiedAtom(stack[j], "+")
        /\ stack[j].pc = "remy"
        /\ MaxRun(stack[j].text, PF(stack[j])) >= 2
        /\ Base(stack[j]) = 1

\* C8: when matches returns True, the slot of every "+" group, numbered in
\* source order, holds the substring consumed by the group's last
\* repetition on the winning path.
C8_LastRepetition ==
    (phase = "done" /\ result = "True") =>
        \A j \in Frames :
            (/\ stack[j].kind = "PR"
             /\ stack[j].pc = "oney"
             /\ ~\E k \in Frames : /\ k > j
                                   /\ stack[k].kind = "PR"
                                   /\ stack[k].pc = "oney"
                                   /\ stack[k].off = stack[j].off)
                => captures[SourceOrderIndex(stack[j].off)]
                       = Take(stack[j].text, stack[j].mlen)

\* C9: for the group a pattern starts with, the closing parenthesis
\* _find_matching_paren chooses is the unescaped ")" that balances the "("
\* when only unescaped parentheses are counted.
C9_EscapedParensIgnored ==
    (/\ At("MI", "start", "run")
     /\ F.parent = 0
     /\ F.pat # <<>>
     /\ F.pat[1] = "(")
        => find_matching_paren(F.pat, 1) = UnescapedClose(F.pat)

\* C10: for a well-formed pattern the recursion stays within the limit:
\* no call of matches ends in a RecursionError.
C10_Terminates ==
    WellFormed(pattern) => result # "RecursionError"

=============================================================================
